---- MODULE Spec2Model ----
(***************************************************************************)
(* A model of the chalk expression language: tokenizer, recursive-descent  *)
(* parser, tree-walking evaluator with a late-bound binding table, and the *)
(* number-theory helpers (prime factorization, gcd, lcm).                  *)
(*                                                                         *)
(* The specifications share the module:                                    *)
(*   Spec       the Evaluator as a state machine (ctx across exec calls)   *)
(*   SpecOps    BinaryOperator::eval / UnaryOperator::eval on results      *)
(*   SpecParse  one statement through tokenize, Parser::parse and exec     *)
(*   SpecMath   gcd, lcm and prime_factorize on positive integers          *)
(*   SpecDeps   exec calls interleaved with Evaluator::depends_on queries   *)
(*   SpecRepl   the REPL loop of main.rs, line after line, with fairness   *)
(***************************************************************************)
EXTENDS Integers, Sequences, FiniteSets, TLC

VARIABLES
    ctx,      \* Evaluator.ctx : HashMap<char, Expr>  (None = no entry)
    last,     \* the last exec call: statement and outcome
    alive,    \* FALSE once a panic / stack overflow has aborted the process
    checked,  \* build profile: TRUE = overflow checks on (debug), FALSE = release
    opIn,     \* SpecOps: the operator application under evaluation
    opOut,    \* SpecOps: its outcome
    input,    \* SpecParse: the input text, a sequence of characters
    tokens,   \* SpecParse: outcome of tokenize
    parsed,   \* SpecParse: outcome of Parser::parse
    stage,    \* SpecParse: "read", "tokenized", "parsed", "evaluated"; SpecRepl: also "prompt"
    assigned, \* history: per variable, the right-hand side of the latest `v = e` statement
    query,    \* the last depends_on call: expression, queried name, table and outcome
    printed   \* SpecParse: the statement as the program prints it (None = nothing printed)

vars == <<ctx, last, alive, checked, opIn, opOut, input, tokens, parsed, stage, assigned,
          query, printed>>

----------------------------------------------------------------------------
(* Machine integers *)

I32Max == 2147483647
I32Min == (-2147483647) - 1
Limb == 65536
F32Exact == 16777216

Abs(n) == IF n < 0 THEN -n ELSE n

RECURSIVE Euclid(_, _)
Euclid(a, b) == IF b = 0 THEN a ELSE Euclid(b, a % b)

----------------------------------------------------------------------------
(* Outcomes: Result<T, RuntimeError>, or a panic that unwinds out of exec *)

Ok(v) == [k |-> "Ok", v |-> v]
RuntimeError == [k |-> "Err"]
Panic(why) == [k |-> "Panic", why |-> why]
IsOk(o) == o.k = "Ok"

----------------------------------------------------------------------------
(* EvalResult.  A field name holds values of one type in every record, so
   that records of different variants can be compared.  An f32 is modelled as a reduced fraction num/den with      *)
(* den > 0; den = 0 encodes the non-finite values: num = 1 is +inf,        *)
(* num = -1 is -inf and num = 0 is NaN.                                    *)

Integer(i) == [k |-> "Integer", i |-> i]
Bool(b) == [k |-> "Bool", b |-> b]
Frac(n, d) == [k |-> "Float", num |-> n, den |-> d]
PosInf == Frac(1, 0)
NegInf == Frac(-1, 0)
NaN == Frac(0, 0)

IsFinite(f) == f.den # 0
IsNaN(f) == f.den = 0 /\ f.num = 0

\* round an integer of magnitude >= 2^24 to the nearest value with a 24-bit
\* significand, ties to even (i32 as f32, and the result of f32 arithmetic)
RoundStep(m, s) ==
    LET q == m \div s
        r == m % s
        up == (2 * r > s) \/ (2 * r = s /\ q % 2 = 1)
    IN  IF up THEN q + 1 ELSE q

\* (a result of 2^31 or more lies outside the modelled integers: no arm)
RECURSIVE RoundMag(_, _)
RoundMag(m, s) ==
    CASE m \div s >= F32Exact -> RoundMag(m, 2 * s)
      [] m \div s < F32Exact /\ RoundStep(m, s) <= I32Max \div s -> RoundStep(m, s) * s

\* the f32 nearest to the fraction n/d (fractions of the modelled range are
\* kept exact; a whole number beyond 2^24 is rounded); x/0 is an infinity or NaN
Float(n, d) ==
    IF d = 0 THEN Frac(IF n > 0 THEN 1 ELSE IF n < 0 THEN -1 ELSE 0, 0)
    ELSE LET g == Euclid(Abs(n), Abs(d))
             sn == IF d < 0 THEN -(n \div g) ELSE n \div g
             sd == Abs(d) \div g
         IN  IF sd = 1 /\ Abs(sn) >= F32Exact
             THEN LET m == RoundMag(Abs(sn), 1)
                  IN  Frac(IF sn < 0 THEN -m ELSE m, 1)
             ELSE Frac(sn, sd)

FNeg(a) == Frac(-a.num, a.den)

FAdd(a, b) ==
    IF IsFinite(a) /\ IsFinite(b)
    THEN Float(a.num * b.den + b.num * a.den, a.den * b.den)
    ELSE IF IsNaN(a) \/ IsNaN(b) THEN NaN
    ELSE IF ~IsFinite(a) /\ ~IsFinite(b)
         THEN (IF a.num = b.num THEN a ELSE NaN)
    ELSE IF ~IsFinite(a) THEN a ELSE b

FSub(a, b) == FAdd(a, FNeg(b))

Sign(n) == IF n > 0 THEN 1 ELSE IF n < 0 THEN -1 ELSE 0

FMul(a, b) ==
    IF IsFinite(a) /\ IsFinite(b)
    THEN Float(a.num * b.num, a.den * b.den)
    ELSE IF IsNaN(a) \/ IsNaN(b) THEN NaN
    ELSE Frac(Sign(a.num) * Sign(b.num), 0)

FDiv(a, b) ==
    IF IsFinite(a) /\ IsFinite(b)
    THEN Float(a.num * b.den, a.den * b.num)
    ELSE IF IsNaN(a) \/ IsNaN(b) THEN NaN
    ELSE IF ~IsFinite(a) /\ ~IsFinite(b) THEN NaN
    ELSE IF ~IsFinite(a) THEN Frac(a.num * (IF b.num < 0 THEN -1 ELSE 1), 0)
    ELSE Frac(0, 1)

FLt(a, b) ==
    IF IsNaN(a) \/ IsNaN(b) THEN FALSE
    ELSE IF IsFinite(a) /\ IsFinite(b) THEN a.num * b.den < b.num * a.den
    ELSE IF ~IsFinite(a) /\ ~IsFinite(b) THEN a.num < b.num
    ELSE IF ~IsFinite(a) THEN a.num < 0 ELSE b.num > 0

FEq(a, b) == ~IsNaN(a) /\ ~IsNaN(b) /\ a.num = b.num /\ a.den = b.den

FFloor(a) == a.num \div a.den
FCeil(a) == -((-a.num) \div a.den)
FIsWhole(a) == IsFinite(a) /\ a.den = 1

\* `f as i32`: truncating, saturating, NaN to 0
FAsI32(f, whole) ==
    IF IsNaN(f) THEN 0
    ELSE IF ~IsFinite(f) THEN (IF f.num > 0 THEN I32Max ELSE I32Min)
    ELSE whole

----------------------------------------------------------------------------
(* EvalResult coercions *)

\* `i as f32`
IntAsF32(i) == Float(i, 1)

\* (a slip: the sign of a whole operand is dropped instead of tested)
uint_magnitude(r) ==
    CASE r.k = "Integer" -> Ok(Abs(r.i))
      [] r.k = "Float" /\ IsFinite(r) ->
            IF FIsWhole(r) THEN Ok(Abs(r.num)) ELSE RuntimeError
      [] r.k = "Float" /\ ~IsFinite(r) /\ r # PosInf -> RuntimeError
      [] r.k = "Bool" -> RuntimeError

\* EvalResult::uint.  A whole non-negative f32 of the modelled range casts to
\* itself; +inf would saturate to u32::MAX, which lies outside the modelled
\* integers, so no arm is given for it.
uint(r) ==
    CASE r.k = "Integer" -> IF r.i >= 0 THEN Ok(r.i) ELSE RuntimeError
      [] r.k = "Float" /\ IsFinite(r) ->
            IF FIsWhole(r) /\ r.num >= 0 THEN Ok(r.num) ELSE RuntimeError
      [] r.k = "Float" /\ ~IsFinite(r) /\ r # PosInf -> RuntimeError
      [] r.k = "Bool" -> RuntimeError

\* EvalResult::float
float(r) ==
    CASE r.k = "Float" -> Ok(r)
      [] r.k = "Integer" -> Ok(IntAsF32(r.i))
      [] r.k = "Bool" -> RuntimeError

\* EvalResult::bool
bool(r) ==
    CASE r.k = "Bool" -> Ok(r.b)
      [] OTHER -> RuntimeError

\* impl PartialEq for EvalResult
eq(a, b) ==
    CASE a.k = "Integer" /\ b.k = "Integer" -> a.i = b.i
      [] a.k = "Integer" /\ b.k = "Float" -> FEq(IntAsF32(a.i), b)
      [] a.k = "Float" /\ b.k = "Integer" -> FEq(a, IntAsF32(b.i))
      [] a.k = "Float" /\ b.k = "Float" -> FEq(a, b)
      [] a.k = "Bool" /\ b.k = "Bool" -> a.b = b.b
      [] OTHER -> FALSE

----------------------------------------------------------------------------
(* math/prime.rs *)

RECURSIVE SkipComposite(_, _)
SkipComposite(cache, curr) ==
    IF \E i \in 1..Len(cache) : curr % cache[i] = 0
    THEN SkipComposite(cache, curr + 1)
    ELSE curr

\* PrimeMachine::next: the value pushed to the cache and returned
next(cache) ==
    IF cache = <<>> THEN 2 ELSE SkipComposite(cache, cache[Len(cache)] + 1)

\* f32::sqrt(curr as f32).ceil() as usize
RECURSIVE CeilSqrtFrom(_, _)
CeilSqrtFrom(n, s) == IF s * s >= n THEN s ELSE CeilSqrtFrom(n, s + 1)
CeilSqrt(n) == CeilSqrtFrom(n, 0)

RECURSIVE Insert(_, _)
Insert(sorted, x) ==
    IF sorted = <<>> THEN <<x>>
    ELSE IF x <= Head(sorted) THEN <<x>> \o sorted
    ELSE <<Head(sorted)>> \o Insert(Tail(sorted), x)

RECURSIVE sort(_)
sort(s) == IF s = <<>> THEN <<>> ELSE Insert(sort(Tail(s)), Head(s))

\* the inner `for prime in primes` of prime_factorize: the factor pushed for
\* the remaining quotient curr ("self" when the prime passed the square root)
RECURSIVE first_factor(_, _, _)

\* (a slip: the remaining quotient is pushed without trial division)
first_factor_self(curr, curr_sqrt, cache) == [factor |-> curr, self |-> TRUE]

first_factor(curr, curr_sqrt, cache) ==
    LET prime == next(cache)
    IN  IF prime > curr_sqrt THEN [factor |-> curr, self |-> TRUE]
        ELSE IF curr % prime = 0 THEN [factor |-> prime, self |-> FALSE]
        ELSE first_factor(curr, curr_sqrt, Append(cache, prime))

\* the `while curr != 1` loop of prime_factorize; `curr /= curr` with curr = 0
\* is a division by zero, which panics in every build profile
RECURSIVE factorize_loop(_, _)
factorize_loop(curr, factors) ==
    IF curr = 1 THEN Ok(sort(factors))
    ELSE LET f == first_factor(curr, CeilSqrt(curr), <<>>)
         IN  IF f.self /\ curr = 0 THEN Panic("attempt to divide by zero")
             ELSE factorize_loop(curr \div f.factor, Append(factors, f.factor))

prime_factorize(n) == factorize_loop(n, <<>>)

----------------------------------------------------------------------------
(* math/gcd.rs, math/lcm.rs *)

Count(s, x) == Cardinality({i \in 1..Len(s) : s[i] = x})

\* Powers::generate_powers, as the map prime -> multiplicity (0 when absent)
generate_powers(factors) == [val \in {factors[i] : i \in 1..Len(factors)} |-> Count(factors, val)]

RECURSIVE IntPow(_, _)
IntPow(b, e) == IF e = 0 THEN 1 ELSE b * IntPow(b, e - 1)

\* the exponent lists of the merged HashMap<usize, Vec<usize>>
MergedPowers(powers_a, powers_b, val) ==
    (IF val \in DOMAIN powers_a THEN <<powers_a[val]>> ELSE <<>>)
    \o (IF val \in DOMAIN powers_b THEN <<powers_b[val]>> ELSE <<>>)

SeqMin(s) == CHOOSE m \in {s[i] : i \in 1..Len(s)} : \A i \in 1..Len(s) : m <= s[i]
SeqMax(s) == CHOOSE m \in {s[i] : i \in 1..Len(s)} : \A i \in 1..Len(s) : m >= s[i]

RECURSIVE FoldPowers(_, _, _, _)
FoldPowers(S, powers_a, powers_b, useMin) ==
    IF S = {} THEN 1
    ELSE LET val == CHOOSE x \in S : TRUE
             power == MergedPowers(powers_a, powers_b, val)
             e == IF useMin
                  THEN (IF Len(power) = 1 THEN 0 ELSE SeqMin(power))
                  ELSE (IF Len(power) = 1 THEN power[1] ELSE SeqMax(power))
         IN  IntPow(val, e) * FoldPowers(S \ {val}, powers_a, powers_b, useMin)

\* (a slip: the larger exponent is taken, as lcm does)
gcd_max(a, b) ==
    LET powers_a == generate_powers(prime_factorize(a).v)
        powers_b == generate_powers(prime_factorize(b).v)
    IN  Ok(FoldPowers(DOMAIN powers_a \cup DOMAIN powers_b, powers_a, powers_b, FALSE))

gcd(a, b) ==
    LET fa == prime_factorize(a)
        fb == prime_factorize(b)
    IN  IF ~IsOk(fa) THEN fa
        ELSE IF ~IsOk(fb) THEN fb
        ELSE LET powers_a == generate_powers(fa.v)
                 powers_b == generate_powers(fb.v)
             IN  Ok(FoldPowers(DOMAIN powers_a \cup DOMAIN powers_b, powers_a, powers_b, TRUE))

\* (a slip: the product of the operands)
lcm_product(a, b) == Ok(a * b)

lcm(a, b) ==
    LET fa == prime_factorize(a)
        fb == prime_factorize(b)
    IN  IF ~IsOk(fa) THEN fa
        ELSE IF ~IsOk(fb) THEN fb
        ELSE LET powers_a == generate_powers(fa.v)
                 powers_b == generate_powers(fb.v)
             IN  Ok(FoldPowers(DOMAIN powers_a \cup DOMAIN powers_b, powers_a, powers_b, FALSE))

----------------------------------------------------------------------------
(* ast.rs: Expr.  The leaves Integer and Bool are the same records as the   *)
(* results they evaluate to.                                                *)

Real(n, d) == [k |-> "Real", num |-> n, den |-> d]
Variable(v) == [k |-> "Variable", name |-> v]
Assignment(v, node) == [k |-> "Assignment", n |-> node, name |-> v]
BinaryOp(op, left, right) == [k |-> "BinaryOp", l |-> left, op |-> op, r |-> right]
UnaryOp(op, node) == [k |-> "UnaryOp", n |-> node, op |-> op]
Paren(node) == [k |-> "Paren", n |-> node]
AbsVal(node) == [k |-> "AbsVal", n |-> node]
None == [k |-> "None"]

\* the operators whose evaluation is arithmetic on the modelled numbers
\* (the transcendental functions cos, sin, ... are left out)
UnaryOperator == {"Neg", "Factorial", "Floor", "Ceil"}
BinaryOperator == {"Add", "Subtract", "Multiply", "Divide", "Pow", "Gcd", "Lcm",
                   "Eq", "NEq", "Gt", "Lt", "Gte", "Lte", "And", "Or"}

----------------------------------------------------------------------------
(* exec.rs: UnaryOperator::eval *)

\* (1..=n).product::<u32>() on 16-bit limbs: the wrapped value and whether a
\* multiplication overflowed.  34! is a multiple of 2^32, so from n = 34 on
\* the wrapped product is 0.
FactorialBound == 34

RECURSIVE product(_, _, _)
product(acc, i, n) ==
    IF i > n THEN acc
    ELSE LET lo == acc.lo * i
             hi == acc.hi * i + lo \div Limb
         IN  product([hi |-> hi % Limb, lo |-> lo % Limb,
                      ovf |-> acc.ovf \/ hi >= Limb], i + 1, n)

product_u32(n) ==
    IF n >= FactorialBound THEN [hi |-> 0, lo |-> 0, ovf |-> TRUE]
    ELSE product([hi |-> 0, lo |-> 1, ovf |-> FALSE], 1, n)

\* `u as i32` of the u32 hi * 2^16 + lo
U32AsI32(u) ==
    IF u.hi >= Limb \div 2 THEN (u.hi - Limb) * Limb + u.lo ELSE u.hi * Limb + u.lo

\* x.powf(y) for a whole exponent y (other exponents are outside the model)
RECURSIVE powi(_, _)
powi(x, e) == IF e = 0 THEN Frac(1, 1) ELSE FMul(x, powi(x, e - 1))

powf(x, y) ==
    CASE FIsWhole(y) /\ y.num >= 0 -> powi(x, y.num)
      [] FIsWhole(y) /\ y.num < 0 -> FDiv(Frac(1, 1), powi(x, -y.num))

factorial(expr, chk) ==
    LET n == uint(expr)
    IN  IF ~IsOk(n) THEN n
        ELSE LET p == product_u32(n.v)
             IN  IF p.ovf /\ chk THEN Panic("attempt to multiply with overflow")
                 ELSE Ok(Integer(U32AsI32(p)))

UnaryEval(op, expr, chk) ==
    LET f == float(expr)
    IN  CASE op = "Neg" -> IF IsOk(f) THEN Ok(FNeg(f.v)) ELSE f
          [] op = "Factorial" -> factorial(expr, chk)
          [] op = "Floor" ->
                IF IsOk(f) THEN Ok(Integer(FAsI32(f.v, FFloor(f.v)))) ELSE f
          [] op = "Ceil" ->
                IF IsOk(f) THEN Ok(Integer(FAsI32(f.v, FCeil(f.v)))) ELSE f

----------------------------------------------------------------------------
(* exec.rs: BinaryOperator::eval *)

\* `left.float()? <op> right.float()?`
Floats(left, right) ==
    LET l == float(left)
        r == float(right)
    IN  IF ~IsOk(l) THEN l ELSE IF ~IsOk(r) THEN r ELSE Ok(<<l.v, r.v>>)

\* `left.uint()?, right.uint()?`
Uints(left, right) ==
    LET l == uint(left)
        r == uint(right)
    IN  IF ~IsOk(l) THEN l ELSE IF ~IsOk(r) THEN r ELSE Ok(<<l.v, r.v>>)

\* `left.bool()? && right.bool()?`: Rust's && does not evaluate its right
\* operand, here `right.bool()?`, when the left one is false
and_then(left, right) ==
    LET l == bool(left)
    IN  IF ~IsOk(l) THEN l
        ELSE IF ~l.v THEN Ok(Bool(FALSE))
        ELSE LET r == bool(right) IN IF ~IsOk(r) THEN r ELSE Ok(Bool(r.v))

\* `left.bool()? || right.bool()?`
or_else(left, right) ==
    LET l == bool(left)
    IN  IF ~IsOk(l) THEN l
        ELSE IF l.v THEN Ok(Bool(TRUE))
        ELSE LET r == bool(right) IN IF ~IsOk(r) THEN r ELSE Ok(Bool(r.v))

NumberTheory(op, left, right) ==
    LET u == Uints(left, right)
    IN  IF ~IsOk(u) THEN u
        ELSE LET g == IF op = "Gcd" THEN gcd(u.v[1], u.v[2]) ELSE lcm(u.v[1], u.v[2])
             IN  IF IsOk(g) THEN Ok(Integer(g.v)) ELSE g

BinaryEval(op, left, right) ==
    LET f == Floats(left, right)
    IN  CASE op = "Add" -> IF IsOk(f) THEN Ok(FAdd(f.v[1], f.v[2])) ELSE f
          [] op = "Divide" -> IF IsOk(f) THEN Ok(FDiv(f.v[1], f.v[2])) ELSE f
          [] op = "Multiply" -> IF IsOk(f) THEN Ok(FMul(f.v[1], f.v[2])) ELSE f
          [] op = "Subtract" -> IF IsOk(f) THEN Ok(FSub(f.v[1], f.v[2])) ELSE f
          [] op = "Pow" -> IF IsOk(f) THEN Ok(powf(f.v[1], f.v[2])) ELSE f
          [] op \in {"Gcd", "Lcm"} -> NumberTheory(op, left, right)
          [] op = "Eq" -> Ok(Bool(eq(left, right)))
          [] op = "NEq" -> Ok(Bool(~eq(left, right)))
          [] op = "Gt" -> IF IsOk(f) THEN Ok(Bool(FLt(f.v[2], f.v[1]))) ELSE f
          [] op = "Gte" ->
                IF IsOk(f) THEN Ok(Bool(FLt(f.v[2], f.v[1]) \/ FEq(f.v[1], f.v[2]))) ELSE f
          [] op = "Lt" -> IF IsOk(f) THEN Ok(Bool(FLt(f.v[1], f.v[2]))) ELSE f
          [] op = "Lte" ->
                IF IsOk(f) THEN Ok(Bool(FLt(f.v[1], f.v[2]) \/ FEq(f.v[1], f.v[2]))) ELSE f
          [] op = "And" -> and_then(left, right)
          [] op = "Or" -> or_else(left, right)

----------------------------------------------------------------------------
(* exec.rs: Evaluator::exec *)

\* recursion depth at which the call stack is exhausted
MaxStack == 24

\* exec returns its outcome and leaves the binding table in state c
Out(res, c) == [res |-> res, ctx |-> c]

RECURSIVE exec(_, _, _, _)

\* (a slip: or_insert(node) alone keeps an existing entry)
store_if_absent(c, v, node) == IF c[v] = None THEN [c EXCEPT ![v] = node] ELSE c

\* (a slip: the table is rebuilt around the new entry)
store_reset(c, v, node) == [w \in DOMAIN c |-> IF w = v THEN node ELSE None]

\* Expr::Assignment: `let entry = ctx.entry(v).or_insert(Integer(0)); *entry = node`
store(c, v, node) == [c EXCEPT ![v] = node]

\* (a slip: && and || decided by the left operand alone)
exec_binary_lazy(ast, c, chk, depth) ==
    LET left == exec(ast.l, c, chk, depth + 1)
    IN  IF ~IsOk(left.res) THEN left
        ELSE IF ast.op = "And" /\ left.res.v = Bool(FALSE) THEN left
        ELSE IF ast.op = "Or" /\ left.res.v = Bool(TRUE) THEN left
        ELSE LET right == exec(ast.r, left.ctx, chk, depth + 1)
             IN  IF ~IsOk(right.res) THEN right
                 ELSE Out(BinaryEval(ast.op, left.res.v, right.res.v), right.ctx)

\* Expr::BinaryOp: `let left = exec(left)?; let right = exec(right)?; op.eval(left, right)`
exec_binary(ast, c, chk, depth) ==
    LET left == exec(ast.l, c, chk, depth + 1)
    IN  IF ~IsOk(left.res) THEN left
        ELSE LET right == exec(ast.r, left.ctx, chk, depth + 1)
             IN  IF ~IsOk(right.res) THEN right
                 ELSE Out(BinaryEval(ast.op, left.res.v, right.res.v), right.ctx)

exec(ast, c, chk, depth) ==
    IF depth > MaxStack THEN Out(Panic("stack overflow"), c)
    ELSE CASE ast.k = "Variable" ->
                IF c[ast.name] # None THEN exec(c[ast.name], c, chk, depth + 1)
                ELSE Out(RuntimeError, c)
           [] ast.k = "Assignment" ->
                exec(ast.n, store(c, ast.name, ast.n), chk, depth + 1)
           [] ast.k = "Real" -> Out(Ok(Frac(ast.num, ast.den)), c)
           [] ast.k = "Integer" -> Out(Ok(ast), c)
           [] ast.k = "Bool" -> Out(Ok(ast), c)
           [] ast.k = "Paren" -> exec(ast.n, c, chk, depth + 1)
           [] ast.k = "BinaryOp" -> exec_binary(ast, c, chk, depth)
           [] ast.k = "UnaryOp" ->
                LET node == exec(ast.n, c, chk, depth + 1)
                IN  IF ~IsOk(node.res) THEN node
                    ELSE Out(UnaryEval(ast.op, node.res.v, chk), node.ctx)
           [] ast.k = "AbsVal" ->
                LET expr == exec(ast.n, c, chk, depth + 1)
                IN  IF ~IsOk(expr.res) THEN expr
                    ELSE LET f == float(expr.res.v)
                         IN  IF ~IsOk(f) THEN Out(f, expr.ctx)
                             ELSE Out(Ok(Frac(Abs(f.v.num), f.v.den)), expr.ctx)

\* Evaluator::depends_on; `||` does not evaluate its right operand when the
\* left one is true
RECURSIVE depends_on(_, _, _, _)
depends_on(ast, dep, c, depth) ==
    IF depth > MaxStack THEN Panic("stack overflow")
    ELSE CASE ast.k \in {"AbsVal", "UnaryOp", "Paren"} -> depends_on(ast.n, dep, c, depth + 1)
           [] ast.k = "Variable" ->
                IF ast.name = dep THEN Ok(TRUE)
                ELSE IF c[ast.name] # None THEN depends_on(c[ast.name], dep, c, depth + 1)
                ELSE Ok(FALSE)
           [] ast.k = "BinaryOp" ->
                LET left == depends_on(ast.l, dep, c, depth + 1)
                IN  IF ~IsOk(left) THEN left
                    ELSE IF left.v THEN left
                    ELSE depends_on(ast.r, dep, c, depth + 1)
           [] OTHER -> Ok(FALSE)

----------------------------------------------------------------------------
(* The Evaluator as a state machine: one exec call per step *)

Names == {"x", "y", "z"}
Empty == [v \in Names |-> None]

\* right-hand sides of the assignment statements
Rhs == { Integer(4), Integer(10), Bool(FALSE),
         BinaryOp("Add", Variable("x"), Integer(4)),
         BinaryOp("Multiply", Variable("y"), Real(5, 2)),
         Variable("z"),
         BinaryOp("And", Bool(TRUE), Integer(1)) }

Assignments == { Assignment(v, e) : v \in {"x", "y"}, e \in Rhs }

Logical == { BinaryOp(op, l, r) :
                op \in {"And", "Or"},
                l \in {Bool(TRUE), Bool(FALSE), Variable("x")},
                r \in {Bool(TRUE), Integer(5), Variable("z"), Variable("y")} }

Expressions ==
    { Variable(v) : v \in Names } \cup Logical \cup
    { BinaryOp("Add", Variable("x"), Integer(4)),
      BinaryOp("Add", Variable("y"), Variable("x")),
      BinaryOp("Gcd", Variable("x"), Variable("y")),
      BinaryOp("Lt", Variable("z"), Variable("x")),
      Paren(Variable("y")),
      AbsVal(UnaryOp("Neg", Variable("y"))),
      UnaryOp("Factorial", Variable("x")) }

\* what Parser::parse can return: an assignment only at the root
Stmts == Assignments \cup Expressions

Init ==
    /\ ctx = Empty
    /\ assigned = Empty
    /\ last = [stmt |-> None, res |-> None]
    /\ alive = TRUE
    /\ checked \in BOOLEAN
    /\ opIn = None /\ opOut = None /\ query = None /\ printed = None
    /\ input = <<>> /\ tokens = None /\ parsed = None /\ stage = "idle"

\* Evaluator::exec(&stmt); a panic ends the process
Exec(stmt) ==
    /\ alive
    /\ LET o == exec(stmt, ctx, checked, 0)
       IN  /\ ctx' = o.ctx
           /\ last' = [stmt |-> stmt, res |-> o.res]
           /\ alive' = (o.res.k # "Panic")
    /\ assigned' = IF stmt.k = "Assignment"
                   THEN [assigned EXCEPT ![stmt.name] = stmt.n]
                   ELSE assigned
    /\ UNCHANGED <<checked, opIn, opOut, input, tokens, parsed, stage, query, printed>>

Next == \E stmt \in Stmts : Exec(stmt)

Spec == Init /\ [][Next]_vars

\* the same machine driven through the library interface, where a caller
\* may build any Expr, also one with an assignment below the root
Nested == { Assignment("x", Assignment("y", Integer(4))),
            BinaryOp("Add", Assignment("y", Integer(10)), Integer(1)) }

ApiStmts == Stmts \cup Nested

NextApi == \E stmt \in ApiStmts : Exec(stmt)

SpecApi == Init /\ [][NextApi]_vars

----------------------------------------------------------------------------
(* Properties of the Evaluator *)

RECURSIVE HasAssignment(_)
HasAssignment(e) ==
    CASE e.k = "Assignment" -> TRUE
      [] e.k \in {"Paren", "AbsVal", "UnaryOp"} -> HasAssignment(e.n)
      [] e.k = "BinaryOp" -> HasAssignment(e.l) \/ HasAssignment(e.r)
      [] OTHER -> FALSE

\* e with every bound variable replaced by the expression bound to it
RECURSIVE Inline(_, _)
Inline(e, tbl) ==
    CASE e.k = "Variable" ->
            IF tbl[e.name] = None THEN e ELSE Inline(tbl[e.name], tbl)
      [] e.k = "Assignment" -> Inline(e.n, tbl)
      [] e.k \in {"Paren", "AbsVal", "UnaryOp"} -> [e EXCEPT !.n = Inline(e.n, tbl)]
      [] e.k = "BinaryOp" -> [e EXCEPT !.l = Inline(e.l, tbl), !.r = Inline(e.r, tbl)]
      [] OTHER -> e

\* C1: variables are late-bound.  The table holds, for each variable, the
\* right-hand expression of the most recent assignment to it (not a value),
\* and every successful evaluation returns what the statement evaluates to
\* once each variable is replaced by its most recently assigned expression:
\* after `x = 4`, `y = x + 4`, `x = 10` the statement `y` evaluates to 14.
LateBound ==
    /\ ctx = assigned
    /\ IsOk(last.res) =>
          last.res = exec(Inline(last.stmt, assigned), Empty, checked, 0).res

LateBoundWitness ==
    /\ assigned["x"] = Integer(10)
    /\ assigned["y"] = BinaryOp("Add", Variable("x"), Integer(4))
    /\ last.stmt = Variable("y")
    /\ last.res = Ok(Frac(14, 1))

\* C2: evaluation fails atomically: whenever exec returns RuntimeError the
\* binding table after the call equals the table before the call.
FailsAtomically == [][last'.res = RuntimeError => ctx' = ctx]_vars

\* C3 as stated: an expression without an assignment node leaves every
\* binding table unchanged, and a successful `v = e` changes only v.
MutatesOnlyOnAssignment ==
    [][ /\ ~HasAssignment(last'.stmt) => ctx' = ctx
        /\ (last'.stmt.k = "Assignment" /\ IsOk(last'.res)) =>
              \A w \in Names \ {last'.stmt.name} : ctx'[w] = ctx[w] ]_vars

TableClean(c) == \A w \in Names : ~HasAssignment(c[w])

\* C3 amended: the same, for binding tables whose bound expressions contain
\* no assignment node and for `v = e` whose e contains none.
MutatesOnlyOnAssignmentClean ==
    [][ TableClean(ctx) =>
         /\ ~HasAssignment(last'.stmt) => ctx' = ctx
         /\ (last'.stmt.k = "Assignment" /\ ~HasAssignment(last'.stmt.n)
                /\ IsOk(last'.res)) =>
               \A w \in Names \ {last'.stmt.name} : ctx'[w] = ctx[w] ]_vars

MutatesOnlyOnAssignmentWitness ==
    /\ last.stmt = Assignment("y", BinaryOp("Add", Variable("x"), Integer(4)))
    /\ IsOk(last.res)
    /\ ctx["x"] = Integer(10)
    /\ TableClean(ctx)

\* C5: no short-circuit.  For every binary operation, && and || included,
\* a RuntimeError raised by the right operand (evaluated after a successful
\* left operand) fails the whole evaluation.
NoShortCircuit ==
    [][ last'.stmt.k = "BinaryOp" =>
          LET left == exec(last'.stmt.l, ctx, checked, 1)
          IN  (IsOk(left.res)
                 /\ exec(last'.stmt.r, left.ctx, checked, 1).res = RuntimeError)
              => last'.res = RuntimeError ]_vars

NoShortCircuitWitness ==
    /\ last.stmt = BinaryOp("And", Bool(FALSE), Variable("z"))
    /\ last.res = RuntimeError

----------------------------------------------------------------------------
(* The operators on results: one application of BinaryOperator::eval or    *)
(* UnaryOperator::eval to operands that exec has already evaluated         *)

\* largest operand of the factorial operator
MaxOperand == 20

BinaryOperands ==
    { Integer(0), Integer(4), Integer(5), Integer(-3),
      Frac(0, 1), Frac(6, 1), Frac(5, 2), Bool(TRUE), Bool(FALSE) }

UnaryOperands ==
    { Integer(i) : i \in -1..MaxOperand } \cup
    { Integer(FactorialBound - 1), Integer(FactorialBound),
      Frac(3, 1), Frac(13, 1), Frac(5, 2), Frac(-2, 1), Bool(TRUE) }

\* powf is modelled for whole exponents
InModel(op, l, r) == op = "Pow" /\ r.k = "Float" => FIsWhole(r)

\* operands of == and != beyond the ones above: an integer that `as f32`
\* rounds (2^24 + 1), its neighbours, and the non-finite reals
CompareOperands ==
    BinaryOperands \cup
    { Integer(F32Exact + 1), Integer(F32Exact), Frac(F32Exact, 1), Frac(-3, 1),
      NaN, PosInf, NegInf }

BinaryInputs ==
    { in \in [arity : {2}, op : BinaryOperator, l : BinaryOperands, r : BinaryOperands] :
        InModel(in.op, in.l, in.r) }
    \cup [arity : {2}, op : {"Eq", "NEq"}, l : CompareOperands, r : CompareOperands]

UnaryInputs == [arity : {1}, op : UnaryOperator, n : UnaryOperands]

InitOps ==
    /\ opIn \in BinaryInputs \cup UnaryInputs
    /\ opOut = None /\ query = None /\ printed = None
    /\ checked \in BOOLEAN
    /\ ctx = Empty /\ assigned = Empty
    /\ last = [stmt |-> None, res |-> None]
    /\ alive = TRUE
    /\ input = <<>> /\ tokens = None /\ parsed = None /\ stage = "idle"

EvalBinary ==
    /\ opOut = None
    /\ opIn.arity = 2
    /\ opOut' = BinaryEval(opIn.op, opIn.l, opIn.r)
    /\ UNCHANGED <<ctx, last, alive, checked, opIn, input, tokens, parsed, stage, assigned, query, printed>>

EvalUnary ==
    /\ opOut = None
    /\ opIn.arity = 1
    /\ opOut' = UnaryEval(opIn.op, opIn.n, checked)
    /\ UNCHANGED <<ctx, last, alive, checked, opIn, input, tokens, parsed, stage, assigned, query, printed>>

NextOps == EvalBinary \/ EvalUnary

SpecOps == InitOps /\ [][NextOps]_vars

IsNumeric(r) == r.k \in {"Integer", "Float"}

Evaluated(n) == opOut # None /\ opIn.arity = n

\* C4: logical-and and logical-or fail with RuntimeError whenever either
\* operand is numeric, whatever the other operand is.
LogicalRejectsNumeric ==
    (Evaluated(2) /\ opIn.op \in {"And", "Or"}
        /\ (IsNumeric(opIn.l) \/ IsNumeric(opIn.r)))
    => opOut = RuntimeError

\* C9: gcd and lcm with an operand that evaluates to 0 return a RuntimeError
\* or an integer; the factorization of 0 (and its division 0 / 0) is not reached.
ZeroOperandHandled ==
    (Evaluated(2) /\ opIn.op \in {"Gcd", "Lcm"}
        /\ (opIn.l \in {Integer(0), Frac(0, 1)} \/ opIn.r \in {Integer(0), Frac(0, 1)}))
    => \/ opOut = RuntimeError
       \/ (IsOk(opOut) /\ opOut.v.k = "Integer")

\* the natural number 1 * 2 * ... * n in base 2^16, least significant limb
\* first, no leading zero limb
RECURSIVE BigTimes(_, _, _)
BigTimes(limbs, m, carry) ==
    IF limbs = <<>>
    THEN (IF carry = 0 THEN <<>> ELSE <<carry % Limb>> \o BigTimes(<<>>, m, carry \div Limb))
    ELSE LET t == Head(limbs) * m + carry
         IN  <<t % Limb>> \o BigTimes(Tail(limbs), m, t \div Limb)

RECURSIVE BigFactorial(_)
BigFactorial(n) == IF n = 0 THEN <<1>> ELSE BigTimes(BigFactorial(n - 1), n, 0)

BigOfNat(i) ==
    IF i = 0 THEN <<>>
    ELSE IF i < Limb THEN <<i>>
    ELSE <<i % Limb, i \div Limb>>

\* C10: for every operand that coerces to a non-negative integer n the
\* factorial operator returns Integer(v) with v exactly 1 * 2 * ... * n.
FactorialExact ==
    (Evaluated(1) /\ opIn.op = "Factorial" /\ IsOk(uint(opIn.n)))
    => /\ IsOk(opOut)
       /\ opOut.v.k = "Integer"
       /\ opOut.v.i >= 0
       /\ BigOfNat(opOut.v.i) = BigFactorial(uint(opIn.n).v)

\* the mathematical value of a numeric result, as a reduced fraction
\* (den = 0 for the non-finite reals)
NumericValue(r) == IF r.k = "Integer" THEN <<r.i, 1>> ELSE <<r.num, r.den>>

\* both are booleans with the same value, or both are numeric and
\* numerically equal (NaN is equal to nothing)
SameValue(a, b) ==
    \/ a.k = "Bool" /\ b.k = "Bool" /\ a.b = b.b
    \/ /\ IsNumeric(a) /\ IsNumeric(b)
       /\ NumericValue(a) # <<0, 0>>
       /\ NumericValue(a) = NumericValue(b)

\* C22: equal and not-equal never fail.  == returns Bool(true) exactly when
\* both operands are booleans with the same value or both are numeric and
\* numerically equal; a boolean and a numeric value are unequal; != returns
\* the negation of == on the same operands.
EqualityByValue ==
    (Evaluated(2) /\ opIn.op \in {"Eq", "NEq"})
    => opOut = Ok(Bool(IF opIn.op = "Eq" THEN SameValue(opIn.l, opIn.r)
                                        ELSE ~SameValue(opIn.l, opIn.r)))

----------------------------------------------------------------------------
(* tokenizer.rs.  A text is a sequence of characters; a character is a    *)
(* one-character string, or a name for a character outside ASCII:          *)
(* DIV is U+00F7, SUP2 is U+00B2 (superscript two), E_ACUTE is U+00E9.     *)

AsciiDigits == {"0", "1", "2", "3", "4", "5", "6", "7", "8", "9"}
AsciiLower == {"a", "b", "c", "d", "e", "f", "g", "h", "i", "j", "k", "l", "m",
               "n", "o", "p", "q", "r", "s", "t", "u", "v", "w", "x", "y", "z"}
AsciiUpper == {"G"}

\* char::is_numeric, char::is_alphabetic, char::is_whitespace
is_numeric(c) == c \in AsciiDigits \cup {"SUP2"}
is_alphabetic(c) == c \in AsciiLower \cup AsciiUpper \cup {"E_ACUTE"}
is_whitespace(c) == c = " "

\* char::len_utf8
len_utf8(c) == IF c \in {"DIV", "SUP2", "E_ACUTE"} THEN 2 ELSE 1

Tok(kind) == [k |-> kind]
Ident(word) == [k |-> "Ident", word |-> word]
EOF == Tok("EOF")
InvalidToken == [k |-> "InvalidToken"]

DigitValue(c) ==
    CASE c = "0" -> 0 [] c = "1" -> 1 [] c = "2" -> 2 [] c = "3" -> 3 [] c = "4" -> 4
      [] c = "5" -> 5 [] c = "6" -> 6 [] c = "7" -> 7 [] c = "8" -> 8 [] c = "9" -> 9

\* str::parse::<i32>, as from_str_radix accumulates: None on a character
\* that is not an ASCII digit and on overflow of i32
RECURSIVE parse_i32(_, _)
parse_i32(digits, acc) ==
    IF digits = <<>> THEN Ok(acc)
    ELSE IF Head(digits) \notin AsciiDigits THEN RuntimeError
    ELSE IF acc > (I32Max - DigitValue(Head(digits))) \div 10 THEN RuntimeError
    ELSE parse_i32(Tail(digits), acc * 10 + DigitValue(Head(digits)))

\* str::parse::<f32> of digits with one '.': the decimal value (literals of
\* the modelled range have fewer than ten digits)
RECURSIVE DecimalValue(_, _, _, _)
DecimalValue(chars, num, den, seenDot) ==
    IF chars = <<>> THEN Ok(Float(num, den))
    ELSE IF Head(chars) = "." THEN DecimalValue(Tail(chars), num, den, TRUE)
    ELSE IF Head(chars) \notin AsciiDigits THEN RuntimeError
    ELSE DecimalValue(Tail(chars), num * 10 + DigitValue(Head(chars)),
                      IF seenDot THEN den * 10 ELSE den, seenDot)

parse_f32(chars) == DecimalValue(chars, 0, 1, FALSE)

\* the end (exclusive, as a 1-based position) of the numeric run whose
\* first character is at position i
RECURSIVE numeric_end(_, _, _)
numeric_end(text, j, dot) ==
    IF j > Len(text) THEN j
    ELSE IF is_numeric(text[j]) THEN numeric_end(text, j + 1, dot)
    ELSE IF text[j] = "." /\ ~dot THEN numeric_end(text, j + 1, TRUE)
    ELSE j

RECURSIVE alphabetic_end(_, _)
alphabetic_end(text, j) ==
    IF j > Len(text) THEN j
    ELSE IF is_alphabetic(text[j]) THEN alphabetic_end(text, j + 1)
    ELSE j

\* the byte offset of the n-th character (n counted from 0)
RECURSIVE byte_offset(_, _)
byte_offset(text, n) ==
    IF n = 0 THEN 0 ELSE byte_offset(text, n - 1) + len_utf8(text[n])

is_char_boundary(text, b) == \E n \in 0..Len(text) : byte_offset(text, n) = b

\* `&text[lo..=hi]`: lo and hi are byte indices; the slice panics unless
\* both ends fall on character boundaries inside the text
slice(text, lo, hi) ==
    IF is_char_boundary(text, lo) /\ is_char_boundary(text, hi + 1)
    THEN LET first == CHOOSE n \in 0..Len(text) : byte_offset(text, n) = lo
             after == CHOOSE n \in 0..Len(text) : byte_offset(text, n) = hi + 1
         IN  Ok(SubSeq(text, first + 1, after))
    ELSE Panic("byte index is not a char boundary")

byte_len(word) == byte_offset(word, Len(word))

\* the alphabetic branch: idx and end are the enumerate() indices of the
\* first and last character of the run, used as byte indices
word_token(text, idx, end) ==
    LET word == slice(text, idx, end)
    IN  IF ~IsOk(word) THEN word
        ELSE IF word.v = <<"t", "r", "u", "e">> THEN Ok(Bool(TRUE))
        ELSE IF word.v = <<"f", "a", "l", "s", "e">> THEN Ok(Bool(FALSE))
        ELSE IF byte_len(word.v) = 1 THEN Ok(Variable(word.v[1]))
        ELSE Ok(Ident(word.v))

\* the numeric branch: `curr.parse().unwrap()`
number_token(curr) ==
    IF \E j \in 1..Len(curr) : curr[j] = "."
    THEN LET r == parse_f32(curr)
         IN  IF IsOk(r) THEN Ok([k |-> "Real", num |-> r.v.num, den |-> r.v.den])
             ELSE Panic("unwrap on ParseFloatError")
    ELSE LET r == parse_i32(curr, 0)
         IN  IF IsOk(r) THEN Ok(Integer(r.v))
             ELSE Panic("unwrap on ParseIntError")

Single(c) ==
    CASE c = "(" -> "OpenParen" [] c = ")" -> "CloseParen" [] c = "*" -> "Multiply"
      [] c \in {"/", "DIV"} -> "Divide" [] c = "+" -> "Plus" [] c = "^" -> "Caret"
      [] c = "," -> "Comma" [] c = "-" -> "Minus"

\* the two-character operators: first character, second character, token
\* of the pair, token of the first character alone
Double(c) ==
    CASE c = "|" -> <<"|", "Or", "Bar">>
      [] c = "!" -> <<"=", "NEq", "Exclamation">>
      [] c = "=" -> <<"=", "Eq", "Assign">>
      [] c = ">" -> <<"=", "Gte", "Gt">>
      [] c = "<" -> <<"=", "Lte", "Lt">>

\* the `while let Some((idx, c)) = peek.next()` loop; i is the 1-based
\* position of c, so idx = i - 1
RECURSIVE scan(_, _, _)
scan(text, i, acc) ==
    IF i > Len(text) THEN Ok(Append(acc, EOF))
    ELSE LET c == text[i]
             follows(d) == i < Len(text) /\ text[i + 1] = d
         IN  CASE c \in {"(", ")", "*", "/", "DIV", "+", "^", ",", "-"} ->
                    scan(text, i + 1, Append(acc, Tok(Single(c))))
               [] c \in {"|", "!", "=", ">", "<"} ->
                    IF follows(Double(c)[1])
                    THEN scan(text, i + 2, Append(acc, Tok(Double(c)[2])))
                    ELSE scan(text, i + 1, Append(acc, Tok(Double(c)[3])))
               [] c = "&" ->
                    IF follows("&") THEN scan(text, i + 2, Append(acc, Tok("And")))
                    ELSE InvalidToken
               [] is_whitespace(c) -> scan(text, i + 1, acc)
               [] is_numeric(c) ->
                    LET j == numeric_end(text, i + 1, FALSE)
                        t == number_token(SubSeq(text, i, j - 1))
                    IN  IF IsOk(t) THEN scan(text, j, Append(acc, t.v)) ELSE t
               [] is_alphabetic(c) ->
                    LET j == alphabetic_end(text, i + 1)
                        t == word_token(text, i - 1, j - 2)
                    IN  IF IsOk(t) THEN scan(text, j, Append(acc, t.v)) ELSE t
               [] OTHER -> InvalidToken

tokenize(text) == scan(text, 1, <<>>)

----------------------------------------------------------------------------
(* ast.rs: Parser.  `current` counts from 0, so tokens[current] of the     *)
(* source is toks[cur + 1] here; reading at or beyond the length panics.   *)

ParseError == [k |-> "ParseError"]
Parsed(e, cur) == [k |-> "Ok", v |-> e, cur |-> cur]
OutOfBounds == Panic("index out of bounds")

to_lowercase(word) == [j \in DOMAIN word |-> IF word[j] = "G" THEN "g" ELSE word[j]]

\* impl TryFrom<&str> for BinaryOperator / UnaryOperator
BinaryNames ==
    { <<<<"a", "d", "d">>, "Add">>,
      <<<<"s", "u", "b", "t", "r", "a", "c", "t">>, "Subtract">>,
      <<<<"s", "u", "b">>, "Subtract">>,
      <<<<"m", "u", "l", "t", "i", "p", "l", "y">>, "Multiply">>,
      <<<<"m", "u", "l">>, "Multiply">>,
      <<<<"d", "i", "v", "i", "d", "e">>, "Divide">>,
      <<<<"d", "i", "v">>, "Divide">>,
      <<<<"p", "o", "w">>, "Pow">>,
      <<<<"g", "c", "d">>, "Gcd">>,
      <<<<"l", "c", "m">>, "Lcm">>,
      <<<<"e", "q">>, "Eq">>,
      <<<<"n", "e", "q">>, "NEq">>,
      <<<<"g", "t">>, "Gt">>,
      <<<<"l", "t">>, "Lt">>,
      <<<<"g", "t", "e">>, "Gte">>,
      <<<<"l", "t", "e">>, "Lte">>,
      <<<<"a", "n", "d">>, "And">>,
      <<<<"o", "r">>, "Or">> }

UnaryNames ==
    { <<<<"n", "e", "g">>, "Neg">>,
      <<<<"f", "a", "c", "t", "o", "r", "i", "a", "l">>, "Factorial">>,
      <<<<"f", "l", "o", "o", "r">>, "Floor">>,
      <<<<"c", "e", "i", "l">>, "Ceil">>,
      <<<<"t", "a", "n">>, "Tan">>,
      <<<<"c", "o", "s">>, "Cos">>,
      <<<<"s", "i", "n">>, "Sin">>,
      <<<<"a", "t", "a", "n">>, "ATan">>,
      <<<<"a", "c", "o", "s">>, "ACos">>,
      <<<<"a", "s", "i", "n">>, "ASin">> }

try_from(names, ident) ==
    IF \E n \in names : n[1] = to_lowercase(ident)
    THEN Ok((CHOOSE n \in names : n[1] = to_lowercase(ident))[2])
    ELSE RuntimeError

InBounds(toks, cur) == cur < Len(toks)

\* Parser::consume: the position after the expected token
consume(toks, cur, kind) ==
    IF ~InBounds(toks, cur) THEN OutOfBounds
    ELSE IF toks[cur + 1].k = kind THEN Ok(cur + 1)
    ELSE ParseError

ChainOp(t) == CASE t.k = "And" -> "And" [] t.k = "Or" -> "Or"
CompareOp(t) ==
    CASE t.k = "Eq" -> "Eq" [] t.k = "NEq" -> "NEq" [] t.k = "Lt" -> "Lt"
      [] t.k = "Lte" -> "Lte" [] t.k = "Gt" -> "Gt" [] t.k = "Gte" -> "Gte"
SumOp(t) == CASE t.k = "Plus" -> "Add" [] t.k = "Minus" -> "Subtract"

RECURSIVE chained(_, _), chained_loop(_, _), comparison(_, _),
          expression(_, _), expression_loop(_, _), term(_, _),
          term_loop(_, _), power(_, _), power_loop(_, _),
          factorial_rule(_, _), factor(_, _),
          call_binary(_, _, _), call_unary(_, _, _), enclosed(_, _, _)

\* the `?` after a sub-rule, then the node built from its result: a failed
\* result is returned as it is
binary_node(op, left, right) ==
    IF ~IsOk(right) THEN right
    ELSE Parsed(BinaryOp(op, left.v, right.v), right.cur)

unary_node(op, node) ==
    IF ~IsOk(node) THEN node ELSE Parsed(UnaryOp(op, node.v), node.cur)

group_node(open, inner) ==
    IF ~IsOk(inner) THEN inner
    ELSE Parsed(IF open = "Bar" THEN AbsVal(inner.v) ELSE Paren(inner.v), inner.cur)

assignment_node(v, expr) ==
    IF ~IsOk(expr) THEN expr ELSE Parsed(Assignment(v, expr.v), expr.cur)

\* `self.consume(&close)?` after a sub-rule
closing(toks, inner, close) ==
    IF ~IsOk(inner) THEN inner
    ELSE LET c == consume(toks, inner.cur, close)
         IN  IF ~IsOk(c) THEN c ELSE Parsed(inner.v, c.v)

\* `let inner = self.chained()?; self.consume(&close)?`
enclosed(toks, cur, close) == closing(toks, chained(toks, cur), close)

\* Parser::assignment
assignment(toks, cur) ==
    IF ~InBounds(toks, cur) \/ ~InBounds(toks, cur + 1) THEN OutOfBounds
    ELSE IF toks[cur + 1].k = "Variable" /\ toks[cur + 2].k = "Assign"
    THEN assignment_node(toks[cur + 1].name, chained(toks, cur + 2))
    ELSE chained(toks, cur)

\* Parser::chained; the loops take the result of the rule on their left
chained_loop(toks, start) ==
    IF ~IsOk(start) THEN start
    ELSE IF ~InBounds(toks, start.cur) THEN OutOfBounds
    ELSE IF toks[start.cur + 1].k \in {"And", "Or"}
    THEN chained_loop(toks, binary_node(ChainOp(toks[start.cur + 1]), start,
                                        comparison(toks, start.cur + 1)))
    ELSE start

chained(toks, cur) == chained_loop(toks, comparison(toks, cur))

\* Parser::comparison
comparison_rest(toks, start) ==
    IF ~IsOk(start) THEN start
    ELSE IF ~InBounds(toks, start.cur) THEN OutOfBounds
    ELSE IF toks[start.cur + 1].k \in {"Eq", "NEq", "Gt", "Lt", "Gte", "Lte"}
    THEN binary_node(CompareOp(toks[start.cur + 1]), start,
                     expression(toks, start.cur + 1))
    ELSE start

comparison(toks, cur) == comparison_rest(toks, expression(toks, cur))

\* Parser::expression
expression_loop(toks, start) ==
    IF ~IsOk(start) THEN start
    ELSE IF ~InBounds(toks, start.cur) THEN OutOfBounds
    ELSE IF toks[start.cur + 1].k \in {"Plus", "Minus"}
    THEN expression_loop(toks, binary_node(SumOp(toks[start.cur + 1]), start,
                                           term(toks, start.cur + 1)))
    ELSE start

\* (a slip: the first operand is read one level too low)
expression_flat(toks, cur) == expression_loop(toks, power(toks, cur))

expression(toks, cur) == expression_loop(toks, term(toks, cur))

\* Parser::term
term_loop(toks, start) ==
    IF ~IsOk(start) THEN start
    ELSE IF ~InBounds(toks, start.cur) THEN OutOfBounds
    ELSE IF toks[start.cur + 1].k \in {"Divide", "Multiply", "OpenParen"}
    THEN term_loop(toks,
            binary_node(IF toks[start.cur + 1].k = "Divide" THEN "Divide" ELSE "Multiply",
                        start,
                        IF toks[start.cur + 1].k = "OpenParen"
                        THEN enclosed(toks, start.cur + 1, "CloseParen")
                        ELSE power(toks, start.cur + 1)))
    ELSE start

term(toks, cur) == term_loop(toks, power(toks, cur))

\* (a slip: the exponent is read as a whole power, which associates to the right)
power_loop_right(toks, start) ==
    IF ~IsOk(start) THEN start
    ELSE IF ~InBounds(toks, start.cur) THEN OutOfBounds
    ELSE IF toks[start.cur + 1].k = "Caret"
    THEN binary_node("Pow", start, power(toks, start.cur + 1))
    ELSE start

\* Parser::power
power_loop(toks, start) ==
    IF ~IsOk(start) THEN start
    ELSE IF ~InBounds(toks, start.cur) THEN OutOfBounds
    ELSE IF toks[start.cur + 1].k = "Caret"
    THEN power_loop(toks, binary_node("Pow", start, factorial_rule(toks, start.cur + 1)))
    ELSE start

power(toks, cur) == power_loop(toks, factorial_rule(toks, cur))

\* Parser::factorial
RECURSIVE factorial_loop(_, _)
factorial_loop(toks, start) ==
    IF ~IsOk(start) THEN start
    ELSE IF ~InBounds(toks, start.cur) THEN OutOfBounds
    ELSE IF toks[start.cur + 1].k = "Exclamation"
    THEN factorial_loop(toks, Parsed(UnaryOp("Factorial", start.v), start.cur + 1))
    ELSE start

factorial_rule(toks, cur) == factorial_loop(toks, factor(toks, cur))

\* Parser::factor, Token::Ident with a binary operator: `name(l, r)`
call_binary_right(toks, op, l) ==
    IF ~IsOk(l) THEN l
    ELSE binary_node(op, l, enclosed(toks, l.cur, "CloseParen"))

call_binary(toks, cur, op) ==
    LET open == consume(toks, cur, "OpenParen")
    IN  IF ~IsOk(open) THEN open
        ELSE call_binary_right(toks, op, enclosed(toks, open.v, "Comma"))

\* Parser::factor, Token::Ident with a unary operator: `name(node)`
call_unary(toks, cur, op) ==
    LET open == consume(toks, cur, "OpenParen")
    IN  IF ~IsOk(open) THEN open
        ELSE unary_node(op, enclosed(toks, open.v, "CloseParen"))

\* Parser::factor
factor(toks, cur) ==
    IF ~InBounds(toks, cur) THEN OutOfBounds
    ELSE LET t == toks[cur + 1]
         IN  CASE t.k = "Minus" -> unary_node("Neg", factor(toks, cur + 1))
               [] t.k \in {"Real", "Integer", "Bool", "Variable"} -> Parsed(t, cur + 1)
               [] t.k \in {"OpenParen", "Bar"} ->
                    group_node(t.k, enclosed(toks, cur + 1,
                                             IF t.k = "Bar" THEN "Bar" ELSE "CloseParen"))
               [] t.k = "Ident" ->
                    IF IsOk(try_from(BinaryNames, t.word))
                    THEN call_binary(toks, cur + 1, try_from(BinaryNames, t.word).v)
                    ELSE IF IsOk(try_from(UnaryNames, t.word))
                    THEN call_unary(toks, cur + 1, try_from(UnaryNames, t.word).v)
                    ELSE ParseError
               [] OTHER -> ParseError

\* (a slip: the end-of-input token is not required)
parse_prefix(toks) == assignment(toks, 0)

\* Parser::parse
parse(toks) == closing(toks, assignment(toks, 0), "EOF")

----------------------------------------------------------------------------
(* ast.rs: impl Display for Expr, as the text (a sequence of characters)   *)

Digit(d) == CASE d = 0 -> "0" [] d = 1 -> "1" [] d = 2 -> "2" [] d = 3 -> "3"
              [] d = 4 -> "4" [] d = 5 -> "5" [] d = 6 -> "6" [] d = 7 -> "7"
              [] d = 8 -> "8" [] d = 9 -> "9"

\* `{i}` of a non-negative integer
RECURSIVE NatText(_)
NatText(n) == IF n < 10 THEN <<Digit(n)>> ELSE NatText(n \div 10) \o <<Digit(n % 10)>>

\* `{i}` of an i32
IntText(i) == IF i < 0 THEN <<"-">> \o NatText(-i) ELSE NatText(i)

\* the digits after the decimal point of rem / den, for a den that divides a
\* power of ten
RECURSIVE FractionText(_, _)
FractionText(rem, den) ==
    IF rem = 0 THEN <<>>
    ELSE <<Digit((rem * 10) \div den)>> \o FractionText((rem * 10) % den, den)

\* `{r}` of an f32 with a short decimal expansion: no point and no digits
\* after it when the value is whole
RealText(num, den) ==
    (IF num < 0 THEN <<"-">> ELSE <<>>)
    \o NatText(Abs(num) \div den)
    \o (IF Abs(num) % den = 0 THEN <<>> ELSE <<".">> \o FractionText(Abs(num) % den, den))

\* impl Display for BinaryOperator
op_char(op) ==
    CASE op = "Add" -> "+" [] op = "Subtract" -> "-" [] op = "Multiply" -> "*"
      [] op = "Divide" -> "/" [] op = "Pow" -> "^"

\* the operators written between their operands with their own text
Infix(op) ==
    CASE op = "Eq" -> <<"=", "=">> [] op = "NEq" -> <<"!", "=">>
      [] op = "Gt" -> <<">">> [] op = "Lt" -> <<"<">>
      [] op = "Gte" -> <<">", "=">> [] op = "Lte" -> <<"<", "=">>
      [] op = "Or" -> <<"|", "|">> [] op = "And" -> <<"&", "&">>
      [] OTHER -> <<op_char(op)>>

CallName(op) ==
    CASE op = "Gcd" -> <<"g", "c", "d">> [] op = "Lcm" -> <<"l", "c", "m">>
      [] op = "Floor" -> <<"f", "l", "o", "o", "r">> [] op = "Ceil" -> <<"c", "e", "i", "l">>
      [] op = "Cos" -> <<"c", "o", "s">> [] op = "Sin" -> <<"s", "i", "n">>
      [] op = "Tan" -> <<"t", "a", "n">> [] op = "ACos" -> <<"a", "c", "o", "s">>
      [] op = "ASin" -> <<"a", "s", "i", "n">> [] op = "ATan" -> <<"a", "t", "a", "n">>

\* impl Display for Expr
RECURSIVE fmt(_)
fmt(e) ==
    CASE e.k = "Variable" -> <<e.name>>
      [] e.k = "Assignment" -> <<e.name, " ", "=", " ">> \o fmt(e.n)
      [] e.k = "Real" -> RealText(e.num, e.den)
      [] e.k = "Integer" -> IntText(e.i)
      [] e.k = "Bool" -> IF e.b THEN <<"t", "r", "u", "e">> ELSE <<"f", "a", "l", "s", "e">>
      [] e.k = "UnaryOp" /\ e.op = "Neg" -> <<"-">> \o fmt(e.n)
      [] e.k = "UnaryOp" /\ e.op = "Factorial" -> fmt(e.n) \o <<"!">>
      [] e.k = "UnaryOp" /\ e.op \notin {"Neg", "Factorial"} ->
            CallName(e.op) \o <<"(">> \o fmt(e.n) \o <<")">>
      [] e.k = "BinaryOp" /\ e.op \in {"Gcd", "Lcm"} ->
            CallName(e.op) \o <<"(">> \o fmt(e.l) \o <<",", " ">> \o fmt(e.r) \o <<")">>
      [] e.k = "BinaryOp" /\ e.op \notin {"Gcd", "Lcm"} ->
            fmt(e.l) \o <<" ">> \o Infix(e.op) \o <<" ">> \o fmt(e.r)
      [] e.k = "Paren" -> <<"(">> \o fmt(e.n) \o <<")">>
      [] e.k = "AbsVal" -> <<"|">> \o fmt(e.n) \o <<"|">>

----------------------------------------------------------------------------
(* The front end: tokenize the input text, then Parser::new(tokens).parse() *)

\* longest text of the exhaustive part of the inputs
MaxLen == 3

Chars == {"1", "2", ".", "x", "=", "(", ")", "+", "!", "<", " "}

RECURSIVE TextsUpTo(_)
TextsUpTo(n) ==
    IF n = 0 THEN {<<>>}
    ELSE LET shorter == TextsUpTo(n - 1)
         IN  shorter \cup {Append(t, c) : t \in shorter, c \in Chars}

\* statements of the tests and of the documentation
Examples ==
    { <<"2", "1", "4", "7", "4", "8", "3", "6", "4", "7">>,
      <<"2", "1", "4", "7", "4", "8", "3", "6", "4", "8">>,
      <<"SUP2">>,
      <<"1", " ", "<", " ", "2", " ", "<", " ", "3">>,
      <<"x", " ", "=", " ", "y", " ", "=", " ", "3">>,
      <<"1", " ", "+", " ", "1", " ", "!", "=", "=", " ", "2">>,
      <<"1", " ", "+", " ", "1", " ", "=", "=", " ", "2">>,
      <<"(", "1", " ", "+", " ", "2", ")", " ", "*", " ", "3", " ", "-", " ", "4", " ", "/", " ", "2">>,
      <<"g", "c", "d", "(", "1", "5", ",", " ", "2", "0", ")">>,
      <<"5", " ", "&", "&", " ", "1">>,
      <<"2", "^", "3", "^", "2">>,
      <<"3", "!", "!">>,
      <<"y", " ", "=", " ", "3", "x", " ", "+", " ", "5">>,
      <<"|", "1", " ", "-", " ", "2", "|">>,
      <<"DIV", "x">>,
      <<"DIV", " ", "x">>,
      <<"4", " ", "DIV", " ", "a", "b">>,
      <<"E_ACUTE">>,
      <<"t", "r", "u", "e", " ", "|", "|", " ", "f", "a", "l", "s", "e">>,
      <<"1", ".", "2", ".", "3">>,
      <<"x", " ", "=", " ", "4">>,
      <<"G", "c", "d", "(", "x", ",", " ", "4", ")">>,
      <<"f", "l", "o", "o", "r", "(", "2", ".", "5", ")">>,
      <<"f", "o", "o", "(", "1", ")">>,
      <<"1", " ", "&", " ", "2">>,
      <<"-", "3", "!">>,
      <<"2", ".", "5", "!">>,
      <<"(", "1", " ", "-", " ", "2", ".", "5", ")", "!">>,
      <<"f", "l", "o", "o", "r", "(", "-", "2", ".", "5", ")", "!">>,
      <<"-", "x", "!">>,
      <<"1", "5", " ", "+", " ", "(", "3", "0", " ", "/", " ", "1", "0", "0", "x", ")">>,
      <<"3", "x">>,
      <<"2", "(", "1", " ", "+", " ", "2", ")">>,
      <<"2", " ", "*", " ", "(", "1", " ", "+", " ", "2", ")">>,
      <<"p", "o", "w", "(", "1", " ", "+", " ", "2", ",", " ", "2", ")">> }

\* `a o b p c` for operands a, b, c and infix operators o, p of the
\* arithmetic levels, or twice the caret
Operands == {"2", "3", "x"}
Arithmetic == {"+", "-", "*", "/"}

Infixes ==
    { <<a, o, b, q, c>> : a \in Operands, b \in Operands, c \in Operands,
                          o \in Arithmetic, q \in Arithmetic }
    \cup { <<a, "^", b, "^", c>> : a \in Operands, b \in Operands, c \in Operands }

\* `a(e)` for term operands a and inner expressions e
TermOperands == { <<"2">>, <<"x">>, <<"2", ".", "5">>, <<"3", "!">>, <<"(", "1", ")">> }
Inners == { <<"3">>, <<"1", " ", "+", " ", "2">>, <<"x">>, <<"1", " ", "<", " ", "2">> }

Implicit(a, e) == a \o <<"(">> \o e \o <<")">>
Explicit(a, e) == a \o <<" ", "*", " ", "(">> \o e \o <<")">>

Implicits == { Implicit(a, e) : a \in TermOperands, e \in Inners }

Texts == TextsUpTo(MaxLen) \cup Examples \cup Infixes \cup Implicits

InitParse ==
    /\ input \in Texts
    /\ tokens = None /\ parsed = None /\ stage = "read"
    /\ alive = TRUE
    /\ checked \in BOOLEAN
    /\ ctx = Empty /\ assigned = Empty
    /\ last = [stmt |-> None, res |-> None]
    /\ opIn = None /\ opOut = None /\ query = None /\ printed = None

\* statement.tokenize()
Tokenize ==
    /\ alive /\ stage = "read"
    /\ tokens' = tokenize(input)
    /\ stage' = "tokenized"
    /\ alive' = (tokens'.k # "Panic")
    /\ UNCHANGED <<ctx, last, checked, opIn, opOut, input, parsed, assigned, query, printed>>

\* Parser::new(tokens).parse()
Parse ==
    /\ alive /\ stage = "tokenized" /\ IsOk(tokens)
    /\ parsed' = parse(tokens.v)
    /\ stage' = "parsed"
    /\ alive' = (parsed'.k # "Panic")
    /\ UNCHANGED <<ctx, last, checked, opIn, opOut, input, tokens, assigned, query, printed>>

\* executor.exec(&val) on the parsed statement, then println! of `{val}`
\* with the result or with the runtime-error message
Evaluate ==
    /\ alive /\ stage = "parsed" /\ IsOk(parsed)
    /\ LET o == exec(parsed.v, ctx, checked, 0)
       IN  /\ ctx' = o.ctx
           /\ last' = [stmt |-> parsed.v, res |-> o.res]
           /\ alive' = (o.res.k # "Panic")
           /\ printed' = IF o.res.k = "Panic" THEN printed ELSE Ok(fmt(parsed.v))
    /\ assigned' = IF parsed.v.k = "Assignment"
                   THEN [assigned EXCEPT ![parsed.v.name] = parsed.v.n]
                   ELSE assigned
    /\ stage' = "evaluated"
    /\ UNCHANGED <<checked, opIn, opOut, input, tokens, parsed, query>>

NextParse == Tokenize \/ Parse \/ Evaluate

SpecParse == InitParse /\ [][NextParse]_vars

\* C6: tokenize is total: for every input text it returns a token sequence
\* or InvalidToken and never aborts, also on digit runs beyond i32 and on
\* numeric characters that are not ASCII digits.
TokenizeTotal == stage # "read" => tokens.k \in {"Ok", "InvalidToken"}

\* C7: parse is total on tokenizer output, the one-element sequence <<EOF>>
\* included: it returns an expression or ParseError and never indexes the
\* token sequence at or beyond its length.
ParseTotal == stage = "parsed" => parsed.k \in {"Ok", "ParseError"}

Rejected ==
    { <<"1", " ", "2">>,
      <<"1", " ", "<", " ", "2", " ", "<", " ", "3">>,
      <<"x", " ", "=", " ", "y", " ", "=", " ", "3">>,
      <<"1", " ", "+", " ", "1", " ", "!", "=", "=", " ", "2">> }

\* C8: parse succeeds only if the assignment rule consumes every token
\* before the end-of-input token; a token left over yields ParseError, so
\* `1 2`, `1 < 2 < 3`, `x = y = 3` and `1 + 1 !== 2` are rejected.
ParseRequiresEof ==
    stage = "parsed" =>
        LET rule == assignment(tokens.v, 0)
        IN  /\ IsOk(parsed) => (IsOk(rule) /\ rule.cur = Len(tokens.v) - 1)
            /\ (IsOk(rule) /\ rule.cur < Len(tokens.v) - 1) => parsed = ParseError
            /\ input \in Rejected => parsed = ParseError

ParseRequiresEofWitness ==
    /\ stage = "parsed"
    /\ input = <<"1", " ", "<", " ", "2", " ", "<", " ", "3">>
    /\ IsOk(assignment(tokens.v, 0))
    /\ parsed = ParseError

----------------------------------------------------------------------------
(* Properties of one statement run through tokenize, parse and exec *)

IsNegative(v) ==
    \/ v.k = "Integer" /\ v.i < 0
    \/ v.k = "Float" /\ ~IsNaN(v) /\ v.num < 0

IsFractional(v) == v.k = "Float" /\ IsFinite(v) /\ v.den # 1

\* C11: factorial of a negative operand (integer or real) and of a real
\* operand with a fractional part returns RuntimeError; the text `-3!` parses
\* as factorial(negate(3)) and so evaluates to RuntimeError.
FactorialRejectsNegative ==
    /\ (stage = "evaluated" /\ last.stmt.k = "UnaryOp" /\ last.stmt.op = "Factorial") =>
          LET operand == exec(last.stmt.n, Empty, checked, 1).res
          IN  (IsOk(operand) /\ (IsNegative(operand.v) \/ IsFractional(operand.v)))
              => last.res = RuntimeError
    /\ (stage = "parsed" /\ input = <<"-", "3", "!">>) =>
          parsed = Parsed(UnaryOp("Factorial", UnaryOp("Neg", Integer(3))), 4)
    /\ (stage = "evaluated" /\ input = <<"-", "3", "!">>) => last.res = RuntimeError

FactorialRejectsNegativeWitness ==
    /\ stage = "evaluated"
    /\ input = <<"f", "l", "o", "o", "r", "(", "-", "2", ".", "5", ")", "!">>
    /\ last.stmt = UnaryOp("Factorial", UnaryOp("Floor", UnaryOp("Neg", Real(5, 2))))
    /\ last.res = RuntimeError

\* C16: a numeric literal immediately followed by a one-letter variable is
\* accepted as the product of the two, in any operand position: `3x` parses
\* to Multiply(3, x), and `y = 3x + 5` and `15 + (30 / 100x)` parse to
\* expressions that depend on x.
LiteralVariableProduct ==
    stage = "parsed" =>
        /\ input = <<"3", "x">> =>
              parsed = Parsed(BinaryOp("Multiply", Integer(3), Variable("x")), 3)
        /\ input \in { <<"y", " ", "=", " ", "3", "x", " ", "+", " ", "5">>,
                       <<"1", "5", " ", "+", " ", "(", "3", "0", " ", "/", " ",
                         "1", "0", "0", "x", ")">> } =>
              /\ IsOk(parsed)
              /\ depends_on(IF parsed.v.k = "Assignment" THEN parsed.v.n ELSE parsed.v,
                            "x", ctx, 0) = Ok(TRUE)

\* two outcomes of exec are the same: equal results (PartialEq of EvalResult)
\* or RuntimeError both
SameOutcome(r1, r2) ==
    \/ IsOk(r1) /\ IsOk(r2) /\ eq(r1.v, r2.v)
    \/ r1 = RuntimeError /\ r2 = RuntimeError

\* C17: Display preserves precedence.  For every expression that parse
\* returns, the printed text tokenizes and parses again, and the re-parsed
\* expression evaluates to the same result as the expression itself.
DisplayRoundTrip ==
    (stage = "evaluated" /\ printed # None) =>
        LET toks == tokenize(printed.v)
        IN  /\ IsOk(toks)
            /\ IsOk(parse(toks.v))
            /\ SameOutcome(exec(parse(toks.v).v, Empty, checked, 0).res, last.res)

Leaf(c) == IF c = "x" THEN Variable("x") ELSE Integer(DigitValue(c))

InfixOp(c) ==
    CASE c = "+" -> "Add" [] c = "-" -> "Subtract" [] c = "*" -> "Multiply"
      [] c = "/" -> "Divide" [] c = "^" -> "Pow"

Binds(c) == IF c \in {"*", "/"} THEN 2 ELSE 1

LeftNested(t) ==
    BinaryOp(InfixOp(t[4]), BinaryOp(InfixOp(t[2]), Leaf(t[1]), Leaf(t[3])), Leaf(t[5]))

RightNested(t) ==
    BinaryOp(InfixOp(t[2]), Leaf(t[1]), BinaryOp(InfixOp(t[4]), Leaf(t[3]), Leaf(t[5])))

\* C18: `*` and `/` bind tighter than `+` and `-`, both levels associate to
\* the left, and a parenthesized sub-expression is one operand wrapped in a
\* Paren node: `a o b p c` groups to the right only when p binds tighter than
\* o; `(1 + 2) * 3 - 4 / 2` parses to
\* Subtract(Multiply(Paren(Add(1, 2)), 3), Divide(4, 2)) and evaluates to 7.
ArithmeticPrecedence ==
    /\ (stage = "parsed" /\ input \in Infixes /\ input[2] \in Arithmetic) =>
          /\ IsOk(parsed)
          /\ parsed.v = IF Binds(input[4]) > Binds(input[2])
                        THEN RightNested(input) ELSE LeftNested(input)
    /\ (stage \in {"parsed", "evaluated"}
          /\ input = <<"(", "1", " ", "+", " ", "2", ")", " ", "*", " ", "3", " ", "-", " ",
                       "4", " ", "/", " ", "2">>) =>
          /\ IsOk(parsed)
          /\ parsed.v = BinaryOp("Subtract",
                            BinaryOp("Multiply",
                                Paren(BinaryOp("Add", Integer(1), Integer(2))), Integer(3)),
                            BinaryOp("Divide", Integer(4), Integer(2)))
          /\ stage = "evaluated" => last.res = Ok(Frac(7, 1))

ArithmeticPrecedenceWitness ==
    /\ stage = "evaluated"
    /\ input = <<"3", "-", "2", "-", "x">>
    /\ last.stmt = BinaryOp("Subtract",
                        BinaryOp("Subtract", Integer(3), Integer(2)), Variable("x"))

\* C19: exponentiation associates to the left: `a^b^c` parses to
\* Pow(Pow(a, b), c), so `2^3^2` evaluates to 64 and not to 512.
PowerLeftAssociative ==
    /\ (stage = "parsed" /\ input \in Infixes /\ input[2] = "^") =>
          /\ IsOk(parsed)
          /\ parsed.v = LeftNested(input)
    /\ (stage = "evaluated" /\ input = <<"2", "^", "3", "^", "2">>) =>
          last.res = Ok(Frac(64, 1))

PowerLeftAssociativeWitness ==
    /\ stage = "evaluated"
    /\ input = <<"2", "^", "3", "^", "2">>
    /\ last.stmt = BinaryOp("Pow", BinaryOp("Pow", Integer(2), Integer(3)), Integer(2))
    /\ last.res = Ok(Frac(64, 1))

\* C26: implicit multiplication is equivalent to the explicit form: for
\* every term operand a and inner expression e, `a(e)` parses to the same
\* expression as `a * (e)`, a Multiply node whose right child is the
\* parenthesized e, and the two evaluate to the same result.
ImplicitMultiplication ==
    \A a \in TermOperands, e \in Inners :
        input = Implicit(a, e) =>
            LET explicit == parse(tokenize(Explicit(a, e)).v)
            IN  /\ stage \in {"parsed", "evaluated"} =>
                    /\ parsed.k = explicit.k
                    /\ IsOk(parsed) =>
                          /\ parsed.v = explicit.v
                          /\ parsed.v.k = "BinaryOp" /\ parsed.v.op = "Multiply"
                          /\ parsed.v.r.k = "Paren"
                /\ stage = "evaluated" =>
                    SameOutcome(last.res, exec(explicit.v, Empty, checked, 0).res)

\* the position at which the alphabetic run that ends the text starts
\* (Len(text) + 1 when the text does not end with a letter)
RECURSIVE RunStart(_, _)
RunStart(text, i) ==
    IF i > 1 /\ is_alphabetic(text[i - 1]) THEN RunStart(text, i - 1) ELSE i

\* the token a run of letters stands for
WordOf(run) ==
    IF run = <<"t", "r", "u", "e">> THEN Bool(TRUE)
    ELSE IF run = <<"f", "a", "l", "s", "e">> THEN Bool(FALSE)
    ELSE IF Len(run) = 1 THEN Variable(run[1])
    ELSE Ident(run)

\* C24: each maximal run of alphabetic characters yields exactly one token
\* determined only by the characters of the run, whatever precedes it
\* (multi-byte characters included); a run of one letter, ASCII or not, is
\* a variable.  Stated for the run that ends the text: the tokens are those
\* of the text before the run, followed by the token of the run.
WordTokenByRun ==
    stage # "read" =>
        LET s == RunStart(input, Len(input) + 1)
            before == tokenize(SubSeq(input, 1, s - 1))
            run == SubSeq(input, s, Len(input))
        IN  (run # <<>> /\ IsOk(before))
            => tokens = Ok(SubSeq(before.v, 1, Len(before.v) - 1) \o <<WordOf(run), EOF>>)

----------------------------------------------------------------------------
(* math/: gcd, lcm and prime_factorize called on positive integers *)

\* largest argument of the number-theory functions
MaxNumber == 30

\* larger arguments of prime_factorize: squares of primes, a prime power, a
\* prime, products of three and four distinct primes
LargerNumbers == {49, 121, 169, 64, 97, 1001, 210}

MathInputs ==
    [fn : {"gcd", "lcm"}, a : 1..MaxNumber, b : 1..MaxNumber]
    \cup [fn : {"prime_factorize"}, a : (1..MaxNumber) \cup LargerNumbers, b : {1}]

InitMath ==
    /\ opIn \in MathInputs
    /\ opOut = None /\ query = None /\ printed = None
    /\ checked \in BOOLEAN
    /\ ctx = Empty /\ assigned = Empty
    /\ last = [stmt |-> None, res |-> None]
    /\ alive = TRUE
    /\ input = <<>> /\ tokens = None /\ parsed = None /\ stage = "idle"

CallGcd ==
    /\ opOut = None /\ opIn.fn = "gcd"
    /\ opOut' = gcd(opIn.a, opIn.b)
    /\ UNCHANGED <<ctx, last, alive, checked, opIn, input, tokens, parsed, stage, assigned, query, printed>>

CallLcm ==
    /\ opOut = None /\ opIn.fn = "lcm"
    /\ opOut' = lcm(opIn.a, opIn.b)
    /\ UNCHANGED <<ctx, last, alive, checked, opIn, input, tokens, parsed, stage, assigned, query, printed>>

CallPrimeFactorize ==
    /\ opOut = None /\ opIn.fn = "prime_factorize"
    /\ opOut' = prime_factorize(opIn.a)
    /\ UNCHANGED <<ctx, last, alive, checked, opIn, input, tokens, parsed, stage, assigned, query, printed>>

NextMath == CallGcd \/ CallLcm \/ CallPrimeFactorize

SpecMath == InitMath /\ [][NextMath]_vars

Returned(fn) == opOut # None /\ opIn.fn = fn

\* C12: for all positive integers a and b, gcd(a, b) * lcm(a, b) = a * b.
GcdLcmProduct ==
    /\ Returned("gcd") =>
          /\ IsOk(opOut) /\ IsOk(lcm(opIn.a, opIn.b))
          /\ opOut.v * lcm(opIn.a, opIn.b).v = opIn.a * opIn.b
    /\ Returned("lcm") =>
          /\ IsOk(opOut) /\ IsOk(gcd(opIn.a, opIn.b))
          /\ gcd(opIn.a, opIn.b).v * opOut.v = opIn.a * opIn.b

GcdLcmProductWitness ==
    Returned("lcm") /\ opIn.a = 12 /\ opIn.b = 15 /\ opOut = Ok(60)

Divides(d, n) == n % d = 0

IsPrime(p) == p > 1 /\ \A d \in 2..(p - 1) : p % d # 0

RECURSIVE Product(_)
Product(s) == IF s = <<>> THEN 1 ELSE Head(s) * Product(Tail(s))

----------------------------------------------------------------------------
(* The Evaluator queried with depends_on between exec calls *)

\* statements executed: `y = 3 * x + 5`, `x = 4`, `z = |-(y)|`, `x = z + x`,
\* and, built through the library interface, `x = (y = z)`
DepStmts ==
    { Assignment("y", BinaryOp("Add", BinaryOp("Multiply", Integer(3), Variable("x")),
                               Integer(5))),
      Assignment("x", Integer(4)),
      Assignment("z", AbsVal(UnaryOp("Neg", Paren(Variable("y"))))),
      Assignment("x", BinaryOp("Add", Variable("z"), Variable("x"))),
      Assignment("x", Assignment("y", Variable("z"))) }

\* expressions queried
DepQueries ==
    { Variable(v) : v \in Names } \cup
    { UnaryOp("Floor", Variable("y")),
      Paren(BinaryOp("Add", Variable("y"), Integer(4))),
      AbsVal(Variable("z")),
      BinaryOp("Add", Variable("z"), Variable("y")),
      Integer(4),
      Assignment("y", BinaryOp("Add", Variable("x"), Integer(1))) }

\* names queried: the variables and a name no statement mentions
DepNames == Names \cup {"f"}

\* Evaluator::depends_on(&ast, dep); a stack overflow ends the process
DependsOn(ast, dep) ==
    /\ alive
    /\ query' = [ast |-> ast, dep |-> dep, tbl |-> ctx,
                 res |-> depends_on(ast, dep, ctx, 0)]
    /\ alive' = (query'.res.k # "Panic")
    /\ UNCHANGED <<ctx, last, checked, opIn, opOut, input, tokens, parsed, stage, assigned, printed>>

NextDeps ==
    \/ \E stmt \in DepStmts : Exec(stmt)
    \/ \E ast \in DepQueries, dep \in DepNames : DependsOn(ast, dep)

SpecDeps == Init /\ [][NextDeps]_vars

\* the names that occur in e as variable references
RECURSIVE Refs(_)
Refs(e) ==
    CASE e.k = "Variable" -> {e.name}
      [] e.k \in {"Assignment", "Paren", "AbsVal", "UnaryOp"} -> Refs(e.n)
      [] e.k = "BinaryOp" -> Refs(e.l) \cup Refs(e.r)
      [] OTHER -> {}

\* the names referenced by e or by the expression bound to a variable that
\* is reachable from e through the table
RECURSIVE Closure(_, _, _)
Closure(R, tbl, n) ==
    IF n = 0 THEN R
    ELSE Closure(R \cup UNION { Refs(tbl[v]) : v \in R \cap DOMAIN tbl }, tbl, n - 1)

Reach(e, tbl) == Closure(Refs(e), tbl, Cardinality(DOMAIN tbl))

Acyclic(tbl) == \A v \in DOMAIN tbl : v \notin Reach(tbl[v], tbl)

\* C14: depends_on is transitive through the bindings.  For an expression
\* without assignment nodes and an acyclic binding table, depends_on(e, n) is
\* true exactly when n is referenced by e or by the expression bound to a
\* variable reachable from e; it is false for every other name, bound or not.
DependsOnTransitive ==
    (query # None /\ ~HasAssignment(query.ast) /\ Acyclic(query.tbl))
    => query.res = Ok(query.dep \in Reach(query.ast, query.tbl))

Children(e) ==
    CASE e.k \in {"Assignment", "Paren", "AbsVal", "UnaryOp"} -> {e.n}
      [] e.k = "BinaryOp" -> {e.l, e.r}
      [] OTHER -> {}

\* C15: depends_on descends into every child expression: if depends_on is
\* true of a child (assignment right-hand side, binary operand, unary
\* operand, parenthesis, absolute value) it is true of the parent.
DependsOnDescends ==
    query # None =>
        \A child \in Children(query.ast) :
            depends_on(child, query.dep, query.tbl, 1) = Ok(TRUE) => query.res = Ok(TRUE)

----------------------------------------------------------------------------
(* main.rs: the REPL loop.  One Evaluator lives across the lines; each line *)
(* is trimmed, tokenized, parsed, executed and reported.                    *)

\* str::trim
RECURSIVE trim_start(_)
trim_start(text) ==
    IF text # <<>> /\ is_whitespace(Head(text)) THEN trim_start(Tail(text)) ELSE text

RECURSIVE trim_end(_)
trim_end(text) ==
    IF text # <<>> /\ is_whitespace(text[Len(text)])
    THEN trim_end(SubSeq(text, 1, Len(text) - 1))
    ELSE text

trim(text) == trim_end(trim_start(text))

\* the lines a user may type (without the line end)
Lines ==
    { <<>>,
      <<" ", " ">>,
      <<"x", " ", "=", " ", "4">>,
      <<" ", "x", " ", "+", " ", "1">>,
      <<"y">>,
      <<"1", " ", "+">>,
      <<"1", " ", "&", " ", "2">>,
      <<"g", "c", "d", "(", "x", ",", " ", "6", ")">>,
      <<"g", "c", "d", "(", "0", ",", " ", "4", ")">>,
      <<"x", " ", "=", " ", "x", " ", "+", " ", "1">>,
      <<"2", "1", "4", "7", "4", "8", "3", "6", "4", "8">> }

InitRepl ==
    /\ stage = "prompt"
    /\ input = <<>> /\ tokens = None /\ parsed = None /\ printed = None
    /\ ctx = Empty /\ assigned = Empty
    /\ last = [stmt |-> None, res |-> None]
    /\ alive = TRUE
    /\ checked \in BOOLEAN
    /\ opIn = None /\ opOut = None /\ query = None

\* `print!("->> ")`, `stdin().read_line(&mut buf)`, `buf.trim()`
ReadLine ==
    /\ alive /\ stage = "prompt"
    /\ \E line \in Lines : input' = trim(line)
    /\ stage' = "read"
    /\ tokens' = None /\ parsed' = None /\ printed' = None
    /\ UNCHANGED <<ctx, last, alive, checked, opIn, opOut, assigned, query>>

\* the end of the loop body: after the report of an invalid statement
\* (eval_statement returned None) or after the report of exec
Continue ==
    /\ alive
    /\ \/ stage = "tokenized" /\ tokens = InvalidToken
       \/ stage = "parsed" /\ parsed = ParseError
       \/ stage = "evaluated"
    /\ stage' = "prompt"
    /\ UNCHANGED <<ctx, last, alive, checked, opIn, opOut, input, tokens, parsed, assigned,
                   query, printed>>

\* the steps the program takes by itself once a line has been read
Run == Tokenize \/ Parse \/ Evaluate \/ Continue

NextRepl == ReadLine \/ Run

\* a step of Run, told by the stage alone: Run is enabled exactly when the
\* process is alive and a line is under way, and each of its steps moves on
\* to another stage
Advance ==
    /\ alive /\ stage \in {"read", "tokenized", "parsed", "evaluated"}
    /\ stage' \in {"tokenized", "parsed", "evaluated", "prompt"}
    /\ stage' # stage

\* the loop body is sequential code: it runs on until the next read_line
SpecRepl == InitRepl /\ [][NextRepl]_vars /\ WF_stage(Advance)

\* C20: the REPL keeps accepting input after any error: after every line
\* that was read (an empty line, one that fails to tokenize or parse, one
\* whose evaluation fails) the loop eventually prints the prompt again.
ReplContinues == (stage = "read") ~> (stage = "prompt")

\* the bindings a variable may have in the second table of a pair
Bindings == { None, Integer(4), Integer(7), Bool(TRUE), Paren(Real(5, 2)) }

\* C27: depends_on is sound with respect to exec.  For every expression e
\* without assignment nodes and every pair of acyclic binding tables that
\* differ only in the binding of the variable n: if depends_on(e, n) is
\* false in both tables, exec(e) returns the same outcome in both.
DependsOnSound ==
    (query # None /\ query.dep \in Names /\ ~HasAssignment(query.ast))
    => \A b \in Bindings :
          LET other == [query.tbl EXCEPT ![query.dep] = b]
          IN  (/\ Acyclic(query.tbl) /\ Acyclic(other)
               /\ query.res = Ok(FALSE)
               /\ depends_on(query.ast, query.dep, other, 0) = Ok(FALSE))
              => exec(query.ast, query.tbl, checked, 0).res
                   = exec(query.ast, other, checked, 0).res

----------------------------------------------------------------------------
(* Termination of the recursive walks over the binding table *)

\* C21: every exec call terminates with a result or a RuntimeError in every
\* binding table that a sequence of exec calls on parsed statements can
\* reach: no call exhausts the call stack.
ExecTerminates ==
    last.res # None => last.res # Panic("stack overflow")

\* C25: depends_on never fails and always terminates with a boolean, for
\* every expression, every queried name and every binding table that a
\* sequence of exec calls can reach.
DependsOnTerminates ==
    query # None => query.res \in {Ok(TRUE), Ok(FALSE)}

====
